---- MODULE Spec2Model ----
(***************************************************************************)
(* Explicit free-list allocator of src/malloc_implementation.c.            *)
(*                                                                         *)
(* The heap is modelled as byte-addressed memory (mem), so that headers,   *)
(* footers, the in-band next/prev pointers of free blocks and the bytes    *)
(* the client stores in a payload all live in the same address space, as   *)
(* in the C program.  Only the bytes that were ever written are kept.      *)
(*                                                                         *)
(* The build modelled is the one in which mm_init returns: assert() is     *)
(* compiled out (NDEBUG) and REQUIRES/ENSURES expand to nothing, because   *)
(* mm_checkheap never returns on a well-formed heap (see mm_checkheap).    *)
(*                                                                         *)
(* Request sizes range over RequestSizes, all far below the sizes for      *)
(* which size + 31 wraps around in size_t.                                 *)
(***************************************************************************)
EXTENDS Integers, Sequences, FiniteSets, Bags, TLC

(* ---------------- program constants ---------------- *)
WSIZE == 4
DSIZE == 8
CHUNKSIZE == 2048
FURTHESTDOWN == 200
MIN_SIZE == 24
ALIGN == 8
FITS == 8
FREE == 0
NULL == 0

(* ---------------- memlib ---------------- *)
\* first address of the arena handed out by mem_sbrk (8-byte aligned, not NULL)
HeapLo == 8

(* ---------------- bounds of the model ---------------- *)
\* number of bytes mem_sbrk can hand out before it fails
MaxHeap == 4128
\* most allocations the client holds at the same time
MaxLive == 3
\* most public calls the client makes in one run
MaxOps == 5
\* largest request made of a fresh heap when every size is tried
MaxRequest == 2032
\* largest request that is allocated, freed and allocated again
MaxReuse == 2048

(* ---------------- memory ---------------- *)
\* one byte of memory; a byte that was never written reads as 0
GETB(m, a) == IF a \in DOMAIN m THEN m[a] ELSE 0

Byte(val, k) == (val \div (256 ^ k)) % 256

\* GET(p): the unsigned int stored at p (little endian)
GET(m, p) ==
    GETB(m, p) + 256 * GETB(m, p + 1) + 65536 * GETB(m, p + 2)
      + 16777216 * GETB(m, p + 3)

\* PUT(p, val): store the unsigned int val at p
PUT(m, p, val) ==
    ((p :> Byte(val, 0)) @@ ((p + 1) :> Byte(val, 1)) @@
     ((p + 2) :> Byte(val, 2)) @@ ((p + 3) :> Byte(val, 3))) @@ m

\* PACK(size, alloc) is size | alloc, with alloc in {0, 1}
PACK(size, alloc) == IF size % 2 = 1 THEN size ELSE size + alloc

\* GET(p) & ~0x7 and GET(p) & 0x1
GET_SIZE(m, p) == GET(m, p) - (GET(m, p) % 8)
GET_ALLOC(m, p) == GET(m, p) % 2

HDRP(bp) == bp - WSIZE
FTRP(m, bp) == bp + GET_SIZE(m, HDRP(bp)) - DSIZE

NEXT_BLKP(m, bp) == bp + GET_SIZE(m, bp - WSIZE)
PREV_BLKP(m, bp) == bp - GET_SIZE(m, bp - DSIZE)

\* a char* stored in 8 bytes at p; the addresses of the model fit in the
\* low 4 bytes, a value with a non-zero high half is no heap address (-1)
GETPTR(m, p) == IF GET(m, p + 4) = 0 THEN GET(m, p) ELSE -1
PUTPTR(m, p, val) == PUT(PUT(m, p, val), p + 4, 0)

GET_NEXT_FREE(m, bp) == GETPTR(m, bp)
GET_PREV_FREE(m, bp) == GETPTR(m, bp + DSIZE)
PUT_NEXT_FREE(m, bp, val) == PUTPTR(m, bp, val)
PUT_PREV_FREE(m, bp, val) == PUTPTR(m, bp + DSIZE, val)

\* the heap is the record h = [mem, brk, listp, root]:
\*   mem   the bytes written so far
\*   brk   one past the last byte of the heap (mem_brk of memlib)
\*   listp heap_listp
\*   root  free_list_root

mem_heap_lo == HeapLo
mem_heap_hi(h) == h.brk - 1

\* mem_sbrk(incr) fails when the arena is exhausted, else returns the old brk
mem_sbrk_ok(h, incr) == incr >= 0 /\ h.brk + incr <= HeapLo + MaxHeap

(* ---------------- statements on the heap ---------------- *)
\* each is one statement of the C code, applied to the heap it finds
PutHdr(h, bp, val) == [h EXCEPT !.mem = PUT(h.mem, HDRP(bp), val)]
PutFtr(h, bp, val) == [h EXCEPT !.mem = PUT(h.mem, FTRP(h.mem, bp), val)]

\* PUT(HDRP(PREV_BLKP(bp)), val), PUT(HDRP(NEXT_BLKP(bp)), val) and
\* PUT(FTRP(NEXT_BLKP(bp)), val)
PutHdrPrev(h, bp, val) == PutHdr(h, PREV_BLKP(h.mem, bp), val)
PutHdrNext(h, bp, val) == PutHdr(h, NEXT_BLKP(h.mem, bp), val)
PutFtrNext(h, bp, val) == PutFtr(h, NEXT_BLKP(h.mem, bp), val)

(* ---------------- free list ---------------- *)
add_to_freelist(h, bp) ==
    IF h.root = NULL
    THEN [h EXCEPT !.root = bp,
                   !.mem = PUT_NEXT_FREE(PUT_PREV_FREE(h.mem, bp, NULL), bp, NULL)]
    ELSE [h EXCEPT !.root = bp,
                   !.mem = PUT_PREV_FREE(
                               PUT_PREV_FREE(PUT_NEXT_FREE(h.mem, bp, h.root),
                                             bp, NULL),
                               h.root, bp)]

\* remove_from_freelist with a head removal that leaves free_list_root
\* pointing at the removed block
remove_from_freelist_stale_root(h, bp) ==
    LET m    == h.mem
        prev == GET_PREV_FREE(m, bp)
        next == GET_NEXT_FREE(m, bp)
    IN  IF prev = NULL /\ next = NULL
        THEN [h EXCEPT !.root = NULL]
        ELSE IF prev = NULL
        THEN [h EXCEPT !.mem = PUT_PREV_FREE(m, next, NULL)]
        ELSE IF next = NULL
        THEN [h EXCEPT !.mem = PUT_NEXT_FREE(m, prev, NULL)]
        ELSE [h EXCEPT !.mem =
                 PUT_NEXT_FREE(
                     PUT_PREV_FREE(
                         PUT_PREV_FREE(PUT_NEXT_FREE(m, prev, next), next, prev),
                         bp, NULL),
                     bp, NULL)]

\* remove_from_freelist with an interior removal that does not repair the
\* prev pointer of the successor
remove_from_freelist_half_unlink(h, bp) ==
    LET m    == h.mem
        prev == GET_PREV_FREE(m, bp)
        next == GET_NEXT_FREE(m, bp)
    IN  IF prev = NULL /\ next = NULL
        THEN [h EXCEPT !.root = NULL]
        ELSE IF prev = NULL
        THEN [h EXCEPT !.root = next, !.mem = PUT_PREV_FREE(m, next, NULL)]
        ELSE IF next = NULL
        THEN [h EXCEPT !.mem = PUT_NEXT_FREE(m, prev, NULL)]
        ELSE [h EXCEPT !.mem =
                 PUT_NEXT_FREE(
                     PUT_PREV_FREE(PUT_NEXT_FREE(m, prev, next), bp, NULL),
                     bp, NULL)]

remove_from_freelist(h, bp) ==
    LET m    == h.mem
        prev == GET_PREV_FREE(m, bp)
        next == GET_NEXT_FREE(m, bp)
    IN  IF prev = NULL /\ next = NULL
        THEN [h EXCEPT !.root = NULL]
        ELSE IF prev = NULL
        THEN [h EXCEPT !.root = next, !.mem = PUT_PREV_FREE(m, next, NULL)]
        ELSE IF next = NULL
        THEN [h EXCEPT !.mem = PUT_NEXT_FREE(m, prev, NULL)]
        ELSE [h EXCEPT !.mem =
                 PUT_NEXT_FREE(
                     PUT_PREV_FREE(
                         PUT_PREV_FREE(PUT_NEXT_FREE(m, prev, next), next, prev),
                         bp, NULL),
                     bp, NULL)]

\* remove_from_freelist(PREV_BLKP(bp)), remove_from_freelist(NEXT_BLKP(bp))
\* and add_to_freelist(PREV_BLKP(bp))
RemovePrev(h, bp) == remove_from_freelist(h, PREV_BLKP(h.mem, bp))
RemoveNext(h, bp) == remove_from_freelist(h, NEXT_BLKP(h.mem, bp))
AddPrev(h, bp) == add_to_freelist(h, PREV_BLKP(h.mem, bp))

(* ---------------- coalesce ---------------- *)
\* return bp and return PREV_BLKP(bp)
ReturnBp(h, bp) == [h |-> h, bp |-> bp]
ReturnPrev(h, bp) == [h |-> h, bp |-> PREV_BLKP(h.mem, bp)]

\* lines 282-287, on the heap that line 281 leaves
coalesce_prev(h, bp, size) ==
    LET size_to_the_side == size + GET_SIZE(h.mem, HDRP(PREV_BLKP(h.mem, bp)))
    IN  ReturnPrev(
            AddPrev(
                PutFtr(PutHdrPrev(h, bp, PACK(size_to_the_side, FREE)),
                       bp, PACK(size_to_the_side, FREE)),
                bp),
            bp)

\* coalesce_next that does not put the merged block on the free list
coalesce_next_not_listed(h, bp, size) ==
    LET size_to_the_side == size + GET_SIZE(h.mem, HDRP(NEXT_BLKP(h.mem, bp)))
    IN  ReturnBp(
            PutHdr(PutFtrNext(h, bp, PACK(size_to_the_side, FREE)),
                   bp, PACK(size_to_the_side, FREE)),
            bp)

\* lines 296-301, on the heap that line 295 leaves
coalesce_next(h, bp, size) ==
    LET size_to_the_side == size + GET_SIZE(h.mem, HDRP(NEXT_BLKP(h.mem, bp)))
    IN  ReturnBp(
            add_to_freelist(
                PutHdr(PutFtrNext(h, bp, PACK(size_to_the_side, FREE)),
                       bp, PACK(size_to_the_side, FREE)),
                bp),
            bp)

\* coalesce_both that leaves the size of the successor out of the sum
coalesce_both_without_next(h, bp, size) ==
    LET size_to_the_side == size + GET_SIZE(h.mem, HDRP(PREV_BLKP(h.mem, bp)))
    IN  ReturnPrev(
            AddPrev(
                PutFtrNext(PutHdrPrev(h, bp, PACK(size_to_the_side, FREE)),
                           bp, PACK(size_to_the_side, FREE)),
                bp),
            bp)

\* lines 309-314, on the heap that lines 307-308 leave
coalesce_both(h, bp, size) ==
    LET size_to_the_side == size + GET_SIZE(h.mem, HDRP(PREV_BLKP(h.mem, bp)))
                                 + GET_SIZE(h.mem, HDRP(NEXT_BLKP(h.mem, bp)))
    IN  ReturnPrev(
            AddPrev(
                PutFtrNext(PutHdrPrev(h, bp, PACK(size_to_the_side, FREE)),
                           bp, PACK(size_to_the_side, FREE)),
                bp),
            bp)

\* coalesce that does not merge with a free successor when the predecessor
\* is allocated
coalesce_no_next_merge(h, bp) ==
    LET prev_block_alloc == GET_ALLOC(h.mem, FTRP(h.mem, PREV_BLKP(h.mem, bp)))
        next_block_alloc == GET_ALLOC(h.mem, HDRP(NEXT_BLKP(h.mem, bp)))
        size             == GET_SIZE(h.mem, HDRP(bp))
    IN  IF prev_block_alloc = 1
        THEN ReturnBp(add_to_freelist(h, bp), bp)
        ELSE IF next_block_alloc = 1
        THEN coalesce_prev(RemovePrev(h, bp), bp, size)
        ELSE coalesce_both(RemovePrev(RemoveNext(h, bp), bp), bp, size)

\* the result is the heap after the call and the pointer returned
coalesce(h, bp) ==
    LET prev_block_alloc == GET_ALLOC(h.mem, FTRP(h.mem, PREV_BLKP(h.mem, bp)))
        next_block_alloc == GET_ALLOC(h.mem, HDRP(NEXT_BLKP(h.mem, bp)))
        size             == GET_SIZE(h.mem, HDRP(bp))
    IN  IF prev_block_alloc = 1 /\ next_block_alloc = 1
        THEN ReturnBp(add_to_freelist(h, bp), bp)
        ELSE IF prev_block_alloc = 0 /\ next_block_alloc = 1
        THEN coalesce_prev(RemovePrev(h, bp), bp, size)
        ELSE IF prev_block_alloc = 1 /\ next_block_alloc = 0
        THEN coalesce_next(RemoveNext(h, bp), bp, size)
        ELSE coalesce_both(RemovePrev(RemoveNext(h, bp), bp), bp, size)

(* ---------------- extend_heap ---------------- *)
\* extend_heap that writes the header of the new block before it looks at
\* the result of mem_sbrk
extend_heap_writes_first(h, words) ==
    LET size == IF words % 2 = 1 THEN (words + 1) * WSIZE ELSE words * WSIZE
        bp   == h.brk
    IN  IF ~mem_sbrk_ok(h, size)
        THEN ReturnBp(PutHdr(h, bp, PACK(size, 0)), NULL)
        ELSE coalesce(
                 PutHdrNext(
                     PutFtr(PutHdr([h EXCEPT !.brk = h.brk + size],
                                   bp, PACK(size, 0)),
                            bp, PACK(size, 0)),
                     bp, PACK(0, 1)),
                 bp)

\* the result is the heap after the call and the pointer returned (NULL
\* when mem_sbrk fails)
extend_heap(h, words) ==
    LET size == IF words % 2 = 1 THEN (words + 1) * WSIZE ELSE words * WSIZE
        bp   == h.brk
    IN  IF ~mem_sbrk_ok(h, size)
        THEN ReturnBp(h, NULL)
        ELSE coalesce(
                 PutHdrNext(
                     PutFtr(PutHdr([h EXCEPT !.brk = h.brk + size],
                                   bp, PACK(size, 0)),
                            bp, PACK(size, 0)),
                     bp, PACK(0, 1)),
                 bp)

(* ---------------- place ---------------- *)
\* lines 497-500, on the heap that line 496 leaves
place_remainder(h, bp, size) ==
    LET next == NEXT_BLKP(h.mem, bp)
    IN  add_to_freelist(PutFtr(PutHdr(h, next, PACK(size, 0)),
                               next, PACK(size, 0)),
                        next)

\* place that leaves a block it takes whole on the free list
place_keeps_listed(h, bp, asize) ==
    LET csize == GET_SIZE(h.mem, HDRP(bp))
    IN  IF csize < asize \/ (csize - asize) >= MIN_SIZE
        THEN place_remainder(
                 remove_from_freelist(
                     PutFtr(PutHdr(h, bp, PACK(asize, 1)), bp, PACK(asize, 1)),
                     bp),
                 bp, csize - asize)
        ELSE PutFtr(PutHdr(h, bp, PACK(csize, 1)), bp, PACK(csize, 1))

\* csize - asize is a size_t difference: it wraps to a huge value when
\* asize > csize
place(h, bp, asize) ==
    LET csize == GET_SIZE(h.mem, HDRP(bp))
    IN  IF csize < asize \/ (csize - asize) >= MIN_SIZE
        THEN place_remainder(
                 remove_from_freelist(
                     PutFtr(PutHdr(h, bp, PACK(asize, 1)), bp, PACK(asize, 1)),
                     bp),
                 bp, csize - asize)
        ELSE remove_from_freelist(
                 PutFtr(PutHdr(h, bp, PACK(csize, 1)), bp, PACK(csize, 1)),
                 bp)

(* ---------------- find_fit ---------------- *)
\* the variables of the loop of find_fit
FitVars(block, count, scount, start_counting, best, bp) ==
    [block |-> block, count |-> count, scount |-> scount,
     start_counting |-> start_counting, best |-> best, bp |-> bp]

\* lines 538-545, for a block that is large enough, on the count that line
\* 537 leaves
find_fit_taken(s, blocksize, count, scount) ==
    IF count = 1
    THEN FitVars(s.block, count, scount, TRUE, blocksize, s.block)
    ELSE IF blocksize < s.best
         THEN FitVars(s.block, count, scount, s.start_counting, blocksize,
                      s.block)
         ELSE FitVars(s.block, count, scount, s.start_counting, s.best, s.bp)

\* find_fit_taken in which a later block of the same size replaces the best
find_fit_body_ties_last(s, blocksize, scount, asize) ==
    IF asize <= blocksize
    THEN IF s.count + 1 = 1 \/ blocksize <= s.best
         THEN FitVars(s.block, s.count + 1, scount, TRUE, blocksize, s.block)
         ELSE FitVars(s.block, s.count + 1, scount, s.start_counting, s.best,
                      s.bp)
    ELSE FitVars(s.block, s.count, scount, s.start_counting, s.best, s.bp)

\* lines 532-546: the body of the loop, on the block size that line 532 and
\* the scount that lines 533-535 leave
find_fit_body(s, blocksize, scount, asize) ==
    IF asize <= blocksize
    THEN find_fit_taken(s, blocksize, s.count + 1, scount)
    ELSE FitVars(s.block, s.count, scount, s.start_counting, s.best, s.bp)

\* the condition of the for loop, line 530
find_fit_goes_on(s) ==
    s.block # NULL /\ s.count < FITS /\ s.scount < FURTHESTDOWN

\* one turn of the loop, and block = GET_NEXT_FREE(block)
find_fit_turn(h, asize, s) ==
    [find_fit_body(s, GET_SIZE(h.mem, HDRP(s.block)),
                   IF s.start_counting THEN s.scount + 1 ELSE s.scount,
                   asize)
       EXCEPT !.block = GET_NEXT_FREE(h.mem, s.block)]

\* at most n turns of the loop from the variables s; n only cuts the walk
\* of a list that has a cycle, where the C loop would not end.  The turns
\* are taken half by half, so that the evaluation does not nest as deep as
\* the list is long.
RECURSIVE find_fit_loop(_, _, _, _)
find_fit_loop(h, asize, s, n) ==
    IF n = 0 \/ ~find_fit_goes_on(s) THEN s
    ELSE IF n = 1 THEN find_fit_turn(h, asize, s)
    ELSE find_fit_loop(h, asize, find_fit_loop(h, asize, s, n \div 2),
                       n - (n \div 2))

find_fit(h, asize) ==
    find_fit_loop(h, asize, FitVars(h.root, 0, 0, FALSE, 0, NULL),
                  h.brk - HeapLo).bp

(* ---------------- mm_init ---------------- *)
\* lines 113-116: -1 when extend_heap returned NULL, else 0
mm_init_return(e) == [h |-> e.h, ret |-> IF e.bp = NULL THEN -1 ELSE 0]

\* mm_init without the alignment padding word
mm_init_no_padding(h) ==
    IF ~mem_sbrk_ok(h, 3 * WSIZE)
    THEN [h |-> [h EXCEPT !.listp = -1], ret |-> -1]
    ELSE LET p == h.brk
         IN  mm_init_return(
                 extend_heap(
                     [mem   |-> PUT(PUT(PUT(h.mem, p, PACK(DSIZE, 1)),
                                        p + (1 * WSIZE), PACK(DSIZE, 1)),
                                    p + (2 * WSIZE), PACK(0, 1)),
                      brk   |-> h.brk + 3 * WSIZE,
                      listp |-> p + (1 * WSIZE),
                      root  |-> NULL],
                     CHUNKSIZE \div WSIZE))

\* the result is the heap after the call and the value returned
mm_init(h) ==
    IF ~mem_sbrk_ok(h, 4 * WSIZE)
    THEN [h |-> [h EXCEPT !.listp = -1], ret |-> -1]
    ELSE LET p == h.brk
         IN  mm_init_return(
                 extend_heap(
                     [mem   |-> PUT(PUT(PUT(PUT(h.mem, p, 0),
                                            p + (1 * WSIZE), PACK(DSIZE, 1)),
                                        p + (2 * WSIZE), PACK(DSIZE, 1)),
                                    p + (3 * WSIZE), PACK(0, 1)),
                      brk   |-> h.brk + 4 * WSIZE,
                      listp |-> p + (2 * WSIZE),
                      root  |-> NULL],
                     CHUNKSIZE \div WSIZE))

\* if (heap_listp == 0) mm_init();
EnsureInit(h) == IF h.listp = 0 THEN mm_init(h).h ELSE h

(* ---------------- mm_malloc ---------------- *)
\* the size adjustment with a minimum block of two doublewords
AdjustedSize_min16(size) ==
    IF size <= 2 * DSIZE
    THEN 2 * DSIZE
    ELSE (2 * DSIZE) * ((size + (2 * DSIZE) + ((2 * DSIZE) - 1)) \div (2 * DSIZE))

\* the size adjustment with one doubleword of overhead, rounded to a
\* doubleword
AdjustedSize_dword(size) ==
    IF size <= 2 * DSIZE
    THEN 3 * DSIZE
    ELSE DSIZE * ((size + DSIZE + (DSIZE - 1)) \div DSIZE)

\* the adjusted block size of lines 141-145
AdjustedSize(size) ==
    IF size <= 2 * DSIZE
    THEN 3 * DSIZE
    ELSE (2 * DSIZE) * ((size + (2 * DSIZE) + ((2 * DSIZE) - 1)) \div (2 * DSIZE))

MAX(x, y) == IF x > y THEN x ELSE y

\* lines 153-157, on the result e of extend_heap
mm_malloc_extended(e, asize) ==
    IF e.bp = NULL
    THEN [h |-> e.h, ret |-> NULL, asize |-> asize]
    ELSE [h |-> place(e.h, e.bp, asize), ret |-> e.bp, asize |-> asize]

\* lines 147-157, on the pointer bp that find_fit returned
mm_malloc_placed(h, asize, bp) ==
    IF bp # NULL
    THEN [h |-> place(h, bp, asize), ret |-> bp, asize |-> asize]
    ELSE mm_malloc_extended(extend_heap(h, MAX(asize, CHUNKSIZE) \div WSIZE),
                            asize)

\* lines 136-157, on the heap that lines 132-134 leave
mm_malloc_sized(h, size) ==
    IF size = 0
    THEN [h |-> h, ret |-> NULL, asize |-> 0]
    ELSE mm_malloc_placed(h, AdjustedSize(size),
                          find_fit(h, AdjustedSize(size)))

\* the result is the heap after the call, the pointer returned and the
\* adjusted size computed (0 when the call returns before computing it)
mm_malloc(h, size) == mm_malloc_sized(EnsureInit(h), size)

(* ---------------- mm_free ---------------- *)
mm_free(h, bp) ==
    IF bp = 0
    THEN h
    ELSE LET size == GET_SIZE(h.mem, HDRP(bp))
         IN  coalesce(PutFtr(PutHdr(EnsureInit(h), bp, PACK(size, 0)),
                             bp, PACK(size, 0)),
                      bp).h

(* ---------------- mm_realloc ---------------- *)
\* memcpy(dst, src, n): a source byte that was never written leaves the
\* destination byte unwritten
memcpy(m, dst, src, n) ==
    [a \in {x \in DOMAIN m : x < dst \/ x >= dst + n}
           \cup {x \in dst .. (dst + n - 1) : (x - dst + src) \in DOMAIN m} |->
        IF a >= dst /\ a < dst + n THEN m[a - dst + src] ELSE m[a]]

\* memcpy(newptr, ptr, oldsize) as a statement on the heap
Memcpy(h, dst, src, n) == [h EXCEPT !.mem = memcpy(h.mem, dst, src, n)]

\* lines 351-352
OldSize(h, ptr, size) ==
    IF size < GET_SIZE(h.mem, HDRP(ptr)) THEN size ELSE GET_SIZE(h.mem, HDRP(ptr))

\* lines 345-358 with the old block freed before it is copied out of
mm_realloc_free_first_copy(r, ptr, size) ==
    IF r.ret = NULL
    THEN [h |-> r.h, ret |-> NULL, copied |-> 0, asize |-> r.asize]
    ELSE [h |-> Memcpy(mm_free(r.h, ptr), r.ret, ptr, OldSize(r.h, ptr, size)),
          ret |-> r.ret, copied |-> OldSize(r.h, ptr, size), asize |-> r.asize]

\* lines 345-358, on the result r of mm_malloc
mm_realloc_copy(r, ptr, size) ==
    IF r.ret = NULL
    THEN [h |-> r.h, ret |-> NULL, copied |-> 0, asize |-> r.asize]
    ELSE [h |-> mm_free(Memcpy(r.h, r.ret, ptr, OldSize(r.h, ptr, size)), ptr),
          ret |-> r.ret, copied |-> OldSize(r.h, ptr, size), asize |-> r.asize]

\* lines 337-340, on the result r of mm_malloc
mm_realloc_null(r) ==
    [h |-> r.h, ret |-> r.ret, copied |-> 0, asize |-> r.asize]

\* mm_realloc that frees the old block before it copies out of it
mm_realloc_free_first(h, ptr, size) ==
    IF size = 0
    THEN [h |-> mm_free(h, ptr), ret |-> NULL, copied |-> 0, asize |-> 0]
    ELSE IF ptr = NULL
    THEN mm_realloc_null(mm_malloc(h, size))
    ELSE mm_realloc_free_first_copy(mm_malloc(h, size), ptr, size)

\* the result is the heap after the call, the pointer returned, the number
\* of bytes copied and the adjusted size computed by mm_malloc
mm_realloc(h, ptr, size) ==
    IF size = 0
    THEN [h |-> mm_free(h, ptr), ret |-> NULL, copied |-> 0, asize |-> 0]
    ELSE IF ptr = NULL
    THEN mm_realloc_null(mm_malloc(h, size))
    ELSE mm_realloc_copy(mm_malloc(h, size), ptr, size)

(* ---------------- mm_calloc ---------------- *)
\* memset(dst, c, n) with dst not NULL
memset(m, dst, c, n) ==
    [a \in (DOMAIN m) \cup (dst .. (dst + n - 1)) |->
        IF a >= dst /\ a < dst + n THEN c ELSE m[a]]

\* line 368 on the result r of malloc at line 367, and line 370.  With
\* newptr NULL and bytes > 0, memset stores through a null pointer, which is
\* undefined: the store faults and the call never returns, or the build
\* leaves the store out and the call returns NULL.  The results are the
\* heap after the call, the pointer returned and whether the call faulted.
mm_calloc_set(r, bytes) ==
    IF r.ret # NULL
    THEN {[h |-> [r.h EXCEPT !.mem = memset(r.h.mem, r.ret, 0, bytes)],
           ret |-> r.ret, asize |-> r.asize, fault |-> FALSE]}
    ELSE IF bytes = 0
    THEN {[h |-> r.h, ret |-> NULL, asize |-> r.asize, fault |-> FALSE]}
    ELSE {[h |-> r.h, ret |-> NULL, asize |-> r.asize, fault |-> f] :
             f \in BOOLEAN}

\* the results that the call can have; malloc is mm_malloc (line 77)
mm_calloc(h, nmemb, size) ==
    mm_calloc_set(mm_malloc(h, nmemb * size), nmemb * size)

(* ---------------- mm_checkheap ---------------- *)
\* the first loop (lines 384-433): "fail" when a check makes the function
\* return 0, "done" with the count i when the list ends, "loop" when the
\* list has a cycle, which the loop walks for ever
RECURSIVE checkheap_list(_, _, _, _)
checkheap_list(h, block, i, fuel) ==
    IF block = NULL THEN [status |-> "done", n |-> i]
    ELSE IF fuel = 0 THEN [status |-> "loop", n |-> i]
    ELSE LET m == h.mem IN
         IF ~(mem_heap_lo < block /\ block < mem_heap_hi(h))
         THEN [status |-> "fail", n |-> i]
         ELSE IF GET_SIZE(m, HDRP(block)) % ALIGN # 0
         THEN [status |-> "fail", n |-> i]
         ELSE IF GET_NEXT_FREE(m, block) # NULL
                 /\ ~(GET_PREV_FREE(m, block) = NULL
                      \/ GET_PREV_FREE(m, GET_NEXT_FREE(m, block)) = block)
         THEN [status |-> "fail", n |-> i]
         ELSE IF NEXT_BLKP(m, block) # NULL
                 /\ ~(GET_ALLOC(m, HDRP(block))
                        # GET_ALLOC(m, HDRP(NEXT_BLKP(m, block))))
         THEN [status |-> "fail", n |-> i]
         ELSE IF ~(GET_SIZE(m, HDRP(block)) >= MIN_SIZE)
         THEN [status |-> "fail", n |-> i]
         ELSE IF GET_SIZE(m, HDRP(block)) # GET_SIZE(m, FTRP(m, block))
         THEN [status |-> "fail", n |-> i]
         ELSE IF GET_ALLOC(m, HDRP(block)) # GET_ALLOC(m, FTRP(m, block))
         THEN [status |-> "fail", n |-> i]
         ELSE checkheap_list(h, GET_NEXT_FREE(m, block), i + 1, fuel - 1)

\* the second loop (lines 436-445): it ends only at block = NULL; a block
\* of size 0 (the epilogue) is its own NEXT_BLKP, so the loop stays on it
RECURSIVE checkheap_walk(_, _, _)
checkheap_walk(h, block, j) ==
    IF block = NULL THEN [status |-> "done", n |-> j]
    ELSE IF GET_SIZE(h.mem, HDRP(block)) % 8 # 0 THEN [status |-> "fail", n |-> j]
    ELSE IF NEXT_BLKP(h.mem, block) = block THEN [status |-> "loop", n |-> j]
    ELSE checkheap_walk(h, NEXT_BLKP(h.mem, block),
                        IF GET_ALLOC(h.mem, HDRP(block)) = FREE THEN j + 1 ELSE j)

\* the outcome of the call from the outcomes l and w of its two loops
mm_checkheap_loops(l, w) ==
        IF l.status = "fail" THEN [returns |-> TRUE, value |-> 0]
        ELSE IF l.status = "loop" THEN [returns |-> FALSE, value |-> 0]
        ELSE IF w.status = "fail" THEN [returns |-> TRUE, value |-> 0]
        ELSE IF w.status = "loop" THEN [returns |-> FALSE, value |-> 0]
        ELSE IF l.n # w.n THEN [returns |-> TRUE, value |-> 0]
        ELSE [returns |-> TRUE, value |-> 1]

\* whether the call returns, and the value it returns
mm_checkheap(h) ==
    mm_checkheap_loops(checkheap_list(h, h.root, 0, h.brk - HeapLo),
                       checkheap_walk(h, h.listp, 0))

(* ---------------- the proxy cache: src/cache.h, src/proxy.c ---------------- *)
MAX_CACHE_SIZE == 1049000
MAX_OBJECT_SIZE == 102400
\* the size of the buffer that handle_request reads the answer into
MAXLINE == 8192

\* number of handler threads
MaxThreads == 2
\* number of requests the clients make of the handler threads
MaxRequests == 3
\* number of requests the single client of the sequential proxy makes
MaxSeqRequests == 12
\* number of distinct URLs the concurrent clients ask for
MaxUrl == 2
\* number of distinct response bodies a server sends
MaxBody == 2
\* size of a small response
SmallSize == 1
\* number of requests the client of the streaming proxy makes
MaxStreamRequests == 2
\* largest value of time(NULL)
MaxClock == 2
\* number of objects of MAX_OBJECT_SIZE bytes that handlers have cached, one
\* request after the other, before the concurrent clients arrive
Fill == 10

\* a struct Cache (src/cache.h): next and prev are the position in the
\* list, a sequence whose first element is the header; alloc names the
\* buffers that Malloc returned for url and response (lines 489-490) by the
\* number of the request that made them
Entry(url, response, response_size, last_access, alloc) ==
    [url |-> url, response |-> response, response_size |-> response_size,
     last_access |-> last_access, alloc |-> alloc]

\* the header of the list after init_cache
init_cache == Entry(NULL, NULL, 0, 0, 0)

\* lines 544-552: c is the entry visited, temp the candidate, both
\* positions in the list
RECURSIVE find_LRU_loop(_, _, _, _)
find_LRU_loop(list, c, temp, t) ==
    IF c > Len(list)
    THEN temp
    ELSE IF list[temp].last_access < t
         THEN find_LRU_loop(list, c + 1, c, list[c].last_access)
         ELSE find_LRU_loop(list, c + 1, temp, t)

\* find_LRU that returns the last entry of the list, the one inserted first
find_LRU_last(list, time) == Len(list)

\* the position of the entry find_LRU returns, at time(NULL) = time
find_LRU(list, time) == find_LRU_loop(list, 2, 1, time)

\* both branches put new_block right behind the header
add_cache_entry(list, new_block) == <<Head(list), new_block>> \o Tail(list)

\* unlinks the entry at position LRU, and frees it
delete_cache_entry(list, LRU) ==
    SubSeq(list, 1, LRU - 1) \o SubSeq(list, LRU + 1, Len(list))

\* the list and remaining_cache_size as one value
CacheOf(list, remaining) == [list |-> list, remaining |-> remaining]

\* lines 496-505: the new block is made and its size taken off
write_to_cache_take(c, new_block) ==
    CacheOf(c.list, c.remaining - new_block.response_size)

\* line 507
write_to_cache_add(c, new_block) ==
    CacheOf(add_cache_entry(c.list, new_block), c.remaining)

\* line 515
EvictMore(c, LRU, obj_size) ==
    c.list[LRU].response_size + c.remaining < obj_size

\* lines 517-518 without line 517
write_to_cache_delete_no_credit(c, LRU) ==
    CacheOf(delete_cache_entry(c.list, LRU), c.remaining)

\* lines 517-518
write_to_cache_delete(c, LRU) ==
    CacheOf(delete_cache_entry(c.list, LRU),
            c.remaining + c.list[LRU].response_size)

\* lines 522-531: the entry at LRU gets the new url, response, size and time
write_to_cache_overwrite(c, LRU, new_block) ==
    CacheOf([c.list EXCEPT ![LRU] = new_block],
            c.remaining + (c.list[LRU].response_size - new_block.response_size))

\* lines 515-520
RECURSIVE write_to_cache_evicted(_, _, _)
write_to_cache_evict(c, LRU, new_block, time) ==
    IF EvictMore(c, LRU, new_block.response_size)
    THEN write_to_cache_evicted(write_to_cache_delete(c, LRU), new_block, time)
    ELSE write_to_cache_overwrite(c, LRU, new_block)

\* line 519, on the cache that lines 517-518 leave
write_to_cache_evicted(c, new_block, time) ==
    write_to_cache_evict(c, find_LRU(c.list, time), new_block, time)

\* write_to_cache from P(&write_mutex) to V(&write_mutex), by a handler that
\* no other thread interrupts
write_to_cache(c, new_block, time) ==
    IF c.remaining >= new_block.response_size
    THEN write_to_cache_add(write_to_cache_take(c, new_block), new_block)
    ELSE write_to_cache_evicted(c, new_block, time)

\* the cache after n handlers, one after the other, have each cached an
\* object of MAX_OBJECT_SIZE bytes: the k-th for URL k, at time 1
RECURSIVE Filled(_)
Filled(n) ==
    IF n = 0
    THEN CacheOf(<<init_cache>>, MAX_CACHE_SIZE)
    ELSE write_to_cache(Filled(n - 1), Entry(n, 1, MAX_OBJECT_SIZE, 1, -n), 1)

VARIABLES
    cache,                 \* the list of the cache, the header first
    remaining_cache_size,  \* line 409
    readers_count,         \* line 410
    count_mutex,           \* the semaphores of lines 405-407
    LRU_mutex,
    write_mutex,
    pc,                    \* where each handler thread is
    loc,                   \* the local variables of each handler thread
    now,                   \* what time(NULL) returns
    nreq,                  \* number of requests accepted so far
    sent                   \* the body a handler sent last, NULL before

proxy_vars == <<cache, remaining_cache_size, readers_count, count_mutex,
                LRU_mutex, write_mutex, pc, loc, now, nreq, sent>>

Threads == 1 .. MaxThreads
Urls == Fill .. Fill + MaxUrl - 1
Bodies == 1 .. MaxBody
Sizes == {SmallSize, MAX_OBJECT_SIZE}
Responses == [body : Bodies, size : Sizes]

\* bytes that are not a response any server sent
Garbage == -1

\* the locals of a handler thread that has no request:
\*   url        the URL of the request, req its number,
\*   c          the position search_cache has reached,
\*   cache_hit  the entry search_cache returned, as it was then,
\*   response   the body and the size of what is kept for the cache:
\*              response_buf and sum,
\*   left       response_buf_left,
\*   length     the bytes of its answer that the server has yet to send,
\*   streamed   the bytes passed on to the client,
\*   new_block  the block write_to_cache has made,
\*   LRU        the position find_LRU returned to write_to_cache
NoEntry == Entry(NULL, NULL, 0, 0, 0)
NoResponse == [body |-> NULL, size |-> 0]
NoRequest == [url |-> NULL, req |-> 0, c |-> 0, cache_hit |-> NoEntry,
              response |-> NoResponse, left |-> 0, length |-> 0,
              streamed |-> 0, new_block |-> NoEntry, LRU |-> 0]

\* main, lines 82-84 and 409-410, and init_cache, on a cache that n
\* handlers have filled
ProxyInit(n) ==
    /\ cache = Filled(n).list
    /\ remaining_cache_size = Filled(n).remaining
    /\ readers_count = 0
    /\ count_mutex = 1
    /\ LRU_mutex = 1
    /\ write_mutex = 1
    /\ pc = [t \in Threads |-> "idle"]
    /\ loc = [t \in Threads |-> NoRequest]
    /\ now = 1
    /\ nreq = 0
    /\ sent = NULL

(* ---------------- the allocator and its client ---------------- *)
VARIABLES
    mem,             \* the bytes of memory written so far
    mem_brk,         \* end of the heap (memlib)
    heap_listp,      \* pointer to the prologue block, 0 before mm_init
    free_list_root,  \* head of the free list
    live,            \* the allocations the client holds (a bag of records)
    checked,         \* outcome of the last mm_checkheap call, if any
    nops,            \* number of calls the client has made
    last_fail,       \* "malloc", "realloc" or "calloc" when the last call was
                     \* that one and returned NULL for want of memory,
                     \* "calloc_fault" when it was mm_calloc and faulted,
                     \* else "none"
    last_freed,      \* pointer and requested size of the allocation that
                     \* the last call freed, NotFreed when it freed none
    found            \* the size find_fit was called with on its own, and
                     \* what it returned; NotFound before the call

mm_vars == <<mem, mem_brk, heap_listp, free_list_root, live, checked, nops,
             last_fail, last_freed, found>>

vars == <<mm_vars, proxy_vars>>

Heap == [mem |-> mem, brk |-> mem_brk, listp |-> heap_listp,
         root |-> free_list_root]

SetHeap(h) ==
    /\ mem' = h.mem
    /\ mem_brk' = h.brk
    /\ heap_listp' = h.listp
    /\ free_list_root' = h.root

\* sizes the client asks for: both branches of the size adjustment and a
\* request that takes a whole chunk
RequestSizes == {1, 17, 2032}
ReallocSizes == {0, 1, 17}

\* an allocation the client holds:
\*   ptr    the pointer returned, size the size requested,
\*   asize  the adjusted size mm_malloc computed for it,
\*   wlen   the number of leading payload bytes the client has stored,
\*   seed   which bytes it stored there (0: none)
Allocs == BagToSet(live)
One(a) == SetToBag({a})

\* the byte the client stores at offset i of a payload
Pattern(seed, i) == 1 + (((seed \div 8) + 7 * i) % 113)

NotFreed == [ptr |-> NULL, size |-> 0]

NotFound == [asize |-> 0, bp |-> NULL]

\* no call of mm_checkheap since the last change of the heap
NotCalled == [called |-> FALSE, returns |-> FALSE, value |-> 0]

MallocInit ==
    /\ mem = <<>>
    /\ mem_brk = HeapLo
    /\ heap_listp = 0
    /\ free_list_root = NULL
    /\ live = EmptyBag
    /\ checked = NotCalled
    /\ nops = 0
    /\ last_fail = "none"
    /\ last_freed = NotFreed
    /\ found = NotFound

\* both programs after construction
Init == MallocInit /\ ProxyInit(0)

\* a call of the client; a call of mm_checkheap that did not return leaves
\* the client inside it, and a call that faulted has ended the program
Call(A) ==
    /\ nops < MaxOps
    /\ (checked.called => checked.returns)
    /\ last_fail # "calloc_fault"
    /\ A
    /\ nops' = nops + 1
    /\ UNCHANGED <<found, proxy_vars>>

Init_call ==
    /\ heap_listp = 0
    /\ SetHeap(mm_init(Heap).h)
    /\ UNCHANGED live
    /\ checked' = NotCalled
    /\ last_fail' = "none"
    /\ last_freed' = NotFreed

\* the client keeps the pointer r.ret that mm_malloc returned
Malloc_return(r, size) ==
    /\ SetHeap(r.h)
    /\ live' = IF r.ret = NULL THEN live
               ELSE live (+) One([ptr |-> r.ret, size |-> size,
                                  asize |-> r.asize, wlen |-> 0, seed |-> 0])
    /\ last_fail' = IF r.ret = NULL /\ size # 0 THEN "malloc" ELSE "none"
    /\ last_freed' = NotFreed

Malloc_call(size) ==
    /\ BagCardinality(live) < MaxLive
    /\ Malloc_return(mm_malloc(Heap, size), size)
    /\ checked' = NotCalled

Free_call(a) ==
    /\ SetHeap(mm_free(Heap, a.ptr))
    /\ live' = live (-) One(a)
    /\ checked' = NotCalled
    /\ last_fail' = "none"
    /\ last_freed' = [ptr |-> a.ptr, size |-> a.size]

\* the client keeps the pointer r.ret that mm_calloc returned; a call that
\* faulted has ended the program
Calloc_return(r, bytes) ==
    /\ SetHeap(r.h)
    /\ live' = IF r.ret = NULL THEN live
               ELSE live (+) One([ptr |-> r.ret, size |-> bytes,
                                  asize |-> r.asize, wlen |-> 0, seed |-> 0])
    /\ last_fail' = IF r.fault THEN "calloc_fault"
                    ELSE IF r.ret = NULL /\ bytes # 0 THEN "calloc"
                    ELSE "none"
    /\ last_freed' = NotFreed

Calloc_call(nmemb, size) ==
    /\ BagCardinality(live) < MaxLive
    /\ \E r \in mm_calloc(Heap, nmemb, size) :
           Calloc_return(r, nmemb * size)
    /\ checked' = NotCalled

Min(x, y) == IF x < y THEN x ELSE y

\* the client replaces a by the pointer r.ret that mm_realloc returned and
\* expects the leading bytes it had stored to be in the new payload
Realloc_return(r, a, size) ==
    /\ SetHeap(r.h)
    /\ live' = IF size = 0 THEN live (-) One(a)
               ELSE IF r.ret = NULL THEN live
               ELSE (live (-) One(a)) (+)
                    One([ptr |-> r.ret, size |-> size, asize |-> r.asize,
                         wlen |-> Min(a.wlen, size),
                         seed |-> IF a.wlen = 0 THEN 0 ELSE a.seed])
    /\ last_fail' = IF r.ret = NULL /\ size # 0 THEN "realloc" ELSE "none"
    /\ last_freed' = NotFreed

\* realloc of a pointer the client holds
Realloc_call(a, size) ==
    /\ Realloc_return(mm_realloc(Heap, a.ptr, size), a, size)
    /\ checked' = NotCalled

\* the client fills the payload it asked for
Write_call(a) ==
    /\ ~(a.wlen = a.size /\ a.seed = a.ptr)
    /\ mem' = [x \in (DOMAIN mem) \cup (a.ptr .. (a.ptr + a.size - 1)) |->
                 IF x >= a.ptr /\ x < a.ptr + a.size
                 THEN Pattern(a.ptr, x - a.ptr) ELSE mem[x]]
    /\ live' = (live (-) One(a)) (+)
               One([a EXCEPT !.wlen = a.size, !.seed = a.ptr])
    /\ UNCHANGED <<mem_brk, heap_listp, free_list_root>>
    /\ checked' = NotCalled
    /\ last_fail' = "none"
    /\ last_freed' = NotFreed

Called(r) == [called |-> TRUE, returns |-> r.returns, value |-> r.value]

Checkheap_call ==
    /\ heap_listp # 0
    /\ checked = NotCalled
    /\ checked' = Called(mm_checkheap(Heap))
    /\ UNCHANGED <<mem, mem_brk, heap_listp, free_list_root, live, last_fail,
                   last_freed>>

Next ==
    \/ Call(Init_call)
    \/ \E size \in RequestSizes : Call(Malloc_call(size))
    \/ \E a \in Allocs : Call(Free_call(a))
    \/ \E a \in Allocs, size \in ReallocSizes : Call(Realloc_call(a, size))
    \/ \E a \in Allocs : Call(Write_call(a))

Spec == Init /\ [][Next]_vars

\* the same client, which may also call mm_checkheap
NextCheck == Next \/ Call(Checkheap_call)

SpecCheck == Init /\ [][NextCheck]_vars

\* requests of every size up to MaxRequest on a fresh heap
NextSizes == \E size \in 1 .. MaxRequest : nops = 0 /\ Call(Malloc_call(size))

SpecSizes == Init /\ [][NextSizes]_vars

\* on a freshly initialised heap: p = alloc(n); free(p); q = alloc(n)
NextReuse ==
    \/ nops = 0 /\ Call(Init_call)
    \/ \E size \in 1 .. MaxReuse : nops = 1 /\ Call(Malloc_call(size))
    \/ \E a \in Allocs : nops = 2 /\ Call(Free_call(a))
    \/ nops = 3 /\ last_freed # NotFreed /\ Call(Malloc_call(last_freed.size))

SpecReuse == Init /\ [][NextReuse]_vars

(* ---------------- find_fit on its own ---------------- *)
\* The heaps that find_fit is given have free blocks of three sizes, each
\* followed by an allocated block that fills a stride of FitStride bytes;
\* the free list holds them in address order: a first block, a run of
\* equal blocks, and a last block (size 0: none).  The arena of these heaps
\* is as large as the heap.
FitBlockSizes == {MIN_SIZE, MIN_SIZE + ALIGN, MIN_SIZE + 2 * ALIGN}
FitRuns == {0, FITS - 2, FITS - 1, FURTHESTDOWN - 1, FURTHESTDOWN}
FitSizes == FitBlockSizes \cup {MIN_SIZE + 3 * ALIGN}
FitStride == 2 * MIN_SIZE + 2 * ALIGN

FitList(head, mid, run, tail) ==
    <<head>> \o [i \in 1 .. run |-> mid]
             \o (IF tail = 0 THEN <<>> ELSE <<tail>>)

\* the payload address of the i-th free block
FitBp(i) == HeapLo + 4 * WSIZE + FitStride * (i - 1)

\* the word at offset o of the stride of the i-th free block, which starts
\* with the header of the block: header, next and prev pointer, footer, and
\* header and footer of the allocated block behind it
FitWord(sizes, i, o) ==
    IF o = 0 \/ o = sizes[i] - WSIZE THEN PACK(sizes[i], FREE)
    ELSE IF o = WSIZE
         THEN (IF i < Len(sizes) THEN FitBp(i + 1) ELSE NULL)
    ELSE IF o = WSIZE + DSIZE
         THEN (IF i > 1 THEN FitBp(i - 1) ELSE NULL)
    ELSE IF o = sizes[i] \/ o = FitStride - WSIZE
         THEN PACK(FitStride - sizes[i], 1)
    ELSE 0

\* the offsets of the words written in the stride of a free block of size s
FitOffsets(s) ==
    {0, WSIZE, 2 * WSIZE, WSIZE + DSIZE, 2 * WSIZE + DSIZE, s - WSIZE, s,
     FitStride - WSIZE}

\* the byte at address a of such a heap: padding and prologue, the strides,
\* the epilogue header
FitByte(sizes, a) ==
    LET w == a - (a % WSIZE)
        d == w - HDRP(FitBp(1))
    IN  IF w = HeapLo THEN 0
        ELSE IF w < HDRP(FitBp(1)) THEN Byte(PACK(DSIZE, 1), a % WSIZE)
        ELSE IF w = HDRP(FitBp(Len(sizes) + 1))
             THEN Byte(PACK(0, 1), a % WSIZE)
        ELSE Byte(FitWord(sizes, (d \div FitStride) + 1, d % FitStride),
                  a % WSIZE)

\* the bytes that the allocator has written
FitDomain(sizes) ==
    (HeapLo .. HeapLo + 3 * WSIZE - 1)
    \cup (HDRP(FitBp(Len(sizes) + 1)) .. FitBp(Len(sizes) + 1) - 1)
    \cup UNION {{HDRP(FitBp(i)) + o + k :
                     o \in FitOffsets(sizes[i]), k \in 0 .. WSIZE - 1} :
                 i \in 1 .. Len(sizes)}

FitMem(sizes) == [a \in FitDomain(sizes) |-> FitByte(sizes, a)]

\* the client holds the allocated blocks
FitLive(sizes) ==
    SetToBag({[ptr |-> FitBp(i) + sizes[i], size |-> 1, asize |-> MIN_SIZE,
               wlen |-> 0, seed |-> 0] : i \in 1 .. Len(sizes)})

InitFitOn(sizes) ==
    /\ mem = FitMem(sizes)
    /\ mem_brk = FitBp(Len(sizes) + 1)
    /\ heap_listp = HeapLo + 2 * WSIZE
    /\ free_list_root = FitBp(1)
    /\ live = FitLive(sizes)
    /\ checked = NotCalled
    /\ nops = 0
    /\ last_fail = "none"
    /\ last_freed = NotFreed
    /\ found = NotFound
    /\ ProxyInit(0)

InitFit ==
    \E head \in FitBlockSizes, mid \in FitBlockSizes, run \in FitRuns,
       tail \in FitBlockSizes \cup {0} :
        InitFitOn(FitList(head, mid, run, tail))

\* find_fit(asize), called once
Fit_call(asize) ==
    /\ found = NotFound
    /\ found' = [asize |-> asize, bp |-> find_fit(Heap, asize)]
    /\ UNCHANGED <<mem, mem_brk, heap_listp, free_list_root, live, checked,
                   nops, last_fail, last_freed, proxy_vars>>

NextFit == \E asize \in FitSizes : Fit_call(asize)

SpecFit == InitFit /\ [][NextFit]_vars

\* the client of Spec, which may also call mm_calloc, until a call faults
CallocMembers == {1, 2}
CallocSizes == {1, 1016}

NextCalloc ==
    \/ Next
    \/ \E nmemb \in CallocMembers, size \in CallocSizes :
           Call(Calloc_call(nmemb, size))

SpecCalloc == Init /\ [][NextCalloc]_vars

(* ---------------- the handler threads of the proxy ---------------- *)
Cache == CacheOf(cache, remaining_cache_size)

SetCache(c) ==
    /\ cache' = c.list
    /\ remaining_cache_size' = c.remaining

\* thread t goes to label l with locals r
Goto(t, l, r) ==
    /\ pc' = [pc EXCEPT ![t] = l]
    /\ loc' = [loc EXCEPT ![t] = r]

\* P(&s) can return when s is positive
CanP(s) == s > 0

\* a handler thread starts on a request for url: lines 137-193
Request(t, url, limit) ==
    /\ pc[t] = "idle"
    /\ nreq < limit
    /\ nreq' = nreq + 1
    /\ Goto(t, "search", [NoRequest EXCEPT !.url = url, !.req = nreq + 1])
    /\ UNCHANGED <<mm_vars, cache, remaining_cache_size, readers_count, count_mutex,
                   LRU_mutex, write_mutex, now, sent>>

\* search_cache, lines 437-438
search_count(t) ==
    /\ pc[t] = "search"
    /\ CanP(count_mutex)
    /\ count_mutex' = count_mutex - 1
    /\ readers_count' = readers_count + 1
    /\ Goto(t, "search_first", loc[t])
    /\ UNCHANGED <<mm_vars, cache, remaining_cache_size, LRU_mutex, write_mutex, now,
                   nreq, sent>>

\* lines 440-446 without line 441
search_first_no_lock(t) ==
    /\ pc[t] = "search_first"
    /\ count_mutex' = count_mutex + 1
    /\ Goto(t, "search_loop", [loc[t] EXCEPT !.c = 2])
    /\ UNCHANGED <<mm_vars, cache, remaining_cache_size, readers_count,
                   LRU_mutex, write_mutex, now, nreq, sent>>

\* lines 440-446: the first reader takes write_mutex
search_first(t) ==
    /\ pc[t] = "search_first"
    /\ IF readers_count = 1
       THEN CanP(write_mutex) /\ write_mutex' = write_mutex - 1
       ELSE UNCHANGED write_mutex
    /\ count_mutex' = count_mutex + 1
    /\ Goto(t, "search_loop", [loc[t] EXCEPT !.c = 2])
    /\ UNCHANGED <<mm_vars, cache, remaining_cache_size, readers_count, LRU_mutex, now,
                   nreq, sent>>

\* lines 448-452 and 466: the test of the loop and the comparison of the URLs
search_loop(t) ==
    /\ pc[t] = "search_loop"
    /\ IF loc[t].c > Len(cache)
       THEN Goto(t, "search_leave", [loc[t] EXCEPT !.c = 0])
       ELSE IF cache[loc[t].c].url = loc[t].url
            THEN Goto(t, "search_hit", loc[t])
            ELSE Goto(t, "search_touch", loc[t])
    /\ UNCHANGED <<mm_vars, cache, remaining_cache_size, readers_count, count_mutex,
                   LRU_mutex, write_mutex, now, nreq, sent>>

\* lines 467-468
search_touch(t) ==
    /\ pc[t] = "search_touch"
    /\ cache' = [cache EXCEPT ![loc[t].c].last_access = now]
    /\ Goto(t, "search_loop", [loc[t] EXCEPT !.c = @ + 1])
    /\ UNCHANGED <<mm_vars, remaining_cache_size, readers_count, count_mutex,
                   LRU_mutex, write_mutex, now, nreq, sent>>

\* line 454
search_hit(t) ==
    /\ pc[t] = "search_hit"
    /\ CanP(LRU_mutex)
    /\ LRU_mutex' = LRU_mutex - 1
    /\ Goto(t, "search_stamp", loc[t])
    /\ UNCHANGED <<mm_vars, cache, remaining_cache_size, readers_count, count_mutex,
                   write_mutex, now, nreq, sent>>

\* lines 455-456
search_stamp(t) ==
    /\ pc[t] = "search_stamp"
    /\ cache' = [cache EXCEPT ![loc[t].c].last_access = now]
    /\ LRU_mutex' = LRU_mutex + 1
    /\ Goto(t, "search_leave", loc[t])
    /\ UNCHANGED <<mm_vars, remaining_cache_size, readers_count, count_mutex,
                   write_mutex, now, nreq, sent>>

\* lines 458-464 on a hit, lines 473-478 on a miss: the last reader gives
\* write_mutex back; search_cache returns the entry or NULL
search_leave(t) ==
    /\ pc[t] = "search_leave"
    /\ CanP(count_mutex)
    /\ readers_count' = readers_count - 1
    /\ write_mutex' = IF readers_count - 1 = 0
                      THEN write_mutex + 1
                      ELSE write_mutex
    /\ IF loc[t].c = 0
       THEN Goto(t, "fetch", loc[t])
       ELSE Goto(t, "send",
                 [loc[t] EXCEPT !.c = 0, !.cache_hit = cache[loc[t].c]])
    /\ UNCHANGED <<mm_vars, cache, remaining_cache_size, count_mutex, LRU_mutex, now,
                   nreq, sent>>

\* the entry that cache_hit points to is still the one search_cache returned
Intact(e) == \E i \in 2 .. Len(cache) : cache[i].alloc = e.alloc

\* handle_request, lines 196-198: the response of the entry is sent; when
\* its buffer has been freed meanwhile, any bytes are
send(t) ==
    /\ pc[t] = "send"
    /\ IF Intact(loc[t].cache_hit)
       THEN sent' = loc[t].cache_hit.response
       ELSE sent' \in Bodies \cup {Garbage}
    /\ Goto(t, "idle", NoRequest)
    /\ UNCHANGED <<mm_vars, cache, remaining_cache_size, readers_count, count_mutex,
                   LRU_mutex, write_mutex, now, nreq>>

\* the caller of search_cache has missed and has the object r, of r.size
\* bytes, that it passes to write_to_cache (line 319); what handle_request
\* keeps of an answer that it reads from a server is connect and read_chunk
fetch(t, r) ==
    /\ pc[t] = "fetch"
    /\ sent' = r.body
    /\ Goto(t, "write", [loc[t] EXCEPT !.response = r])
    /\ UNCHANGED <<mm_vars, cache, remaining_cache_size, readers_count, count_mutex,
                   LRU_mutex, write_mutex, now, nreq>>

\* handle_request, lines 160 and 201-300: the request goes to the server,
\* whose answer has the bytes of body and is length bytes long
connect(t, body, length) ==
    /\ pc[t] = "fetch"
    /\ Goto(t, "read", [loc[t] EXCEPT !.response = [body |-> body, size |-> 0],
                                       !.left = MAX_OBJECT_SIZE,
                                       !.length = length,
                                       !.streamed = 0])
    /\ UNCHANGED <<mm_vars, cache, remaining_cache_size, readers_count,
                   count_mutex, LRU_mutex, write_mutex, now, nreq, sent>>

\* the locals after lines 305-312 have dealt with a chunk of n bytes
AfterChunk(r, n) ==
    [r EXCEPT !.response.size = IF r.left - n > 0 THEN @ + n ELSE @,
              !.left = @ - n,
              !.length = @ - n,
              !.streamed = @ + n]

\* lines 303-312, one turn of the loop: Rio_readn returns MAXLINE bytes, or
\* what is left of the answer
read_chunk(t) ==
    /\ pc[t] = "read"
    /\ loc[t].length > 0
    /\ sent' = loc[t].response.body
    /\ Goto(t, "read", AfterChunk(loc[t], Min(MAXLINE, loc[t].length)))
    /\ UNCHANGED <<mm_vars, cache, remaining_cache_size, readers_count,
                   count_mutex, LRU_mutex, write_mutex, now, nreq>>

\* lines 303 and 314-322: Rio_readn returns 0 at the end of the answer
read_end(t) ==
    /\ pc[t] = "read"
    /\ loc[t].length = 0
    /\ IF loc[t].left >= 0
       THEN Goto(t, "write", loc[t])
       ELSE Goto(t, "idle", NoRequest)
    /\ UNCHANGED <<mm_vars, cache, remaining_cache_size, readers_count,
                   count_mutex, LRU_mutex, write_mutex, now, nreq, sent>>

\* write_to_cache, line 488
write_lock(t) ==
    /\ pc[t] = "write"
    /\ CanP(write_mutex)
    /\ write_mutex' = write_mutex - 1
    /\ Goto(t, "write_branch", loc[t])
    /\ UNCHANGED <<mm_vars, cache, remaining_cache_size, readers_count, count_mutex,
                   LRU_mutex, now, nreq, sent>>

\* the block that write_to_cache makes of the request of thread t
NewBlock(t) ==
    Entry(loc[t].url, loc[t].response.body, loc[t].response.size, now,
          loc[t].req)

\* lines 489-505 when there is room, lines 511-512 when there is not
write_branch(t) ==
    /\ pc[t] = "write_branch"
    /\ IF remaining_cache_size >= loc[t].response.size
       THEN /\ SetCache(write_to_cache_take(Cache, NewBlock(t)))
            /\ Goto(t, "write_add", [loc[t] EXCEPT !.new_block = NewBlock(t)])
       ELSE /\ UNCHANGED <<mm_vars, cache, remaining_cache_size>>
            /\ Goto(t, "write_evict",
                    [loc[t] EXCEPT !.LRU = find_LRU(cache, now)])
    /\ UNCHANGED <<mm_vars, readers_count, count_mutex, LRU_mutex, write_mutex, now,
                   nreq, sent>>

\* line 507
write_add(t) ==
    /\ pc[t] = "write_add"
    /\ SetCache(write_to_cache_add(Cache, loc[t].new_block))
    /\ Goto(t, "write_unlock", loc[t])
    /\ UNCHANGED <<mm_vars, readers_count, count_mutex, LRU_mutex, write_mutex, now,
                   nreq, sent>>

\* lines 515-520, one turn of the loop, or lines 522-531 after it
write_evict(t) ==
    /\ pc[t] = "write_evict"
    /\ IF EvictMore(Cache, loc[t].LRU, loc[t].response.size)
       THEN /\ SetCache(write_to_cache_delete(Cache, loc[t].LRU))
            /\ Goto(t, "write_evict",
                    [loc[t] EXCEPT !.LRU = find_LRU(cache', now)])
       ELSE /\ SetCache(write_to_cache_overwrite(Cache, loc[t].LRU,
                                                 NewBlock(t)))
            /\ Goto(t, "write_unlock", loc[t])
    /\ UNCHANGED <<mm_vars, readers_count, count_mutex, LRU_mutex, write_mutex, now,
                   nreq, sent>>

\* write_to_cache that returns without V(&write_mutex)
write_unlock_without_V(t) ==
    /\ pc[t] = "write_unlock"
    /\ Goto(t, "idle", NoRequest)
    /\ UNCHANGED <<mm_vars, cache, remaining_cache_size, readers_count, count_mutex,
                   LRU_mutex, write_mutex, now, nreq, sent>>

\* line 533, and the handler returns
write_unlock(t) ==
    /\ pc[t] = "write_unlock"
    /\ write_mutex' = write_mutex + 1
    /\ Goto(t, "idle", NoRequest)
    /\ UNCHANGED <<mm_vars, cache, remaining_cache_size, readers_count, count_mutex,
                   LRU_mutex, now, nreq, sent>>

\* a second passes
Tick ==
    /\ now < MaxClock
    /\ now' = now + 1
    /\ UNCHANGED <<mm_vars, cache, remaining_cache_size, readers_count, count_mutex,
                   LRU_mutex, write_mutex, pc, loc, nreq, sent>>

\* a step of search_cache or of write_to_cache, or the answer to a hit
CacheStep(t) ==
    \/ search_count(t)
    \/ search_first(t)
    \/ search_loop(t)
    \/ search_touch(t)
    \/ search_hit(t)
    \/ search_stamp(t)
    \/ search_leave(t)
    \/ send(t)
    \/ write_lock(t)
    \/ write_branch(t)
    \/ write_add(t)
    \/ write_evict(t)
    \/ write_unlock(t)

\* a step of thread t that is not the start of a request, for a caller that
\* inserts the objects of R
Handler(t, R) ==
    \/ CacheStep(t)
    \/ \E r \in R : fetch(t, r)

\* a step of handle_request that is not its start, for servers whose answers
\* have the lengths of L
Streamer(t, L) ==
    \/ CacheStep(t)
    \/ \E length \in L : connect(t, 1, length)
    \/ read_chunk(t)
    \/ read_end(t)

\* the proxy with its handler threads, on an empty cache or on a full one
InitProxy ==
    /\ MallocInit
    /\ \E n \in {0, Fill} : ProxyInit(n)

NextProxy ==
    \/ \E t \in Threads, url \in Urls : Request(t, url, MaxRequests)
    \/ \E t \in Threads : Handler(t, Responses)
    \/ Tick

SpecProxy == InitProxy /\ [][NextProxy]_vars

\* the handler threads under a fair scheduler: a thread that can take a step
\* of search_cache or write_to_cache, and stays able to, takes it; a thread
\* inside P waits while the semaphore is 0.  The objects inserted are of
\* MAX_OBJECT_SIZE bytes and the clock stands still.
FairResponses == {[body |-> 1, size |-> MAX_OBJECT_SIZE]}

NextFair ==
    \/ \E t \in Threads, url \in Urls : Request(t, url, MaxRequests)
    \/ \E t \in Threads : Handler(t, FairResponses)

SpecFair ==
    /\ InitProxy
    /\ [][NextFair]_vars
    /\ \A t \in Threads : WF_vars(Handler(t, FairResponses))

\* the proxy with one client, who waits for each answer before asking
\* again, for the first URL or for the next new one; every object has
\* MAX_OBJECT_SIZE bytes
MaxOf(S) == IF S = {} THEN 0 ELSE LET x == CHOOSE x \in S : \A y \in S : y <= x IN x

CachedUrls == {cache[i].url : i \in 2 .. Len(cache)}
SeqUrls == {1, Min(MaxOf(CachedUrls) + 1, MaxSeqRequests)}
SeqResponses == {[body |-> 1, size |-> MAX_OBJECT_SIZE]}

NextSeq ==
    \/ \E url \in SeqUrls : Request(1, url, MaxSeqRequests)
    \/ Handler(1, SeqResponses)
    \/ Tick

SpecSeq == Init /\ [][NextSeq]_vars

\* the proxy with one client, on an empty cache or on a full one, and
\* servers whose answers are short, one byte less than MAX_OBJECT_SIZE,
\* MAX_OBJECT_SIZE, or one byte more
StreamLengths == {SmallSize, MAX_OBJECT_SIZE - 1, MAX_OBJECT_SIZE,
                  MAX_OBJECT_SIZE + 1}

NextStream ==
    \/ \E url \in Urls : Request(1, url, MaxStreamRequests)
    \/ Streamer(1, StreamLengths)
    \/ Tick

SpecStream == InitProxy /\ [][NextStream]_vars


(* ---------------- the heap as the claims see it ---------------- *)
\* the block pointers met walking from bp by NEXT_BLKP, up to and including
\* the first one that has size 0 or lies at or beyond the end of the heap
RECURSIVE Walk(_, _, _)
Walk(m, bp, hi) ==
    IF bp >= hi \/ GET_SIZE(m, HDRP(bp)) = 0
    THEN <<bp>>
    ELSE <<bp>> \o Walk(m, NEXT_BLKP(m, bp), hi)

Range(s) == {s[i] : i \in DOMAIN s}
Last(s) == s[Len(s)]
Front(s) == SubSeq(s, 1, Len(s) - 1)

HeapWalk == Walk(mem, NEXT_BLKP(mem, heap_listp), mem_brk)
\* the blocks between the prologue and the epilogue, in address order
Blocks == Front(HeapWalk)
BlockSet == Range(Blocks)
\* the walk ends at the epilogue header, which is the last word of the heap
EndsAtEpilogue ==
    /\ Last(HeapWalk) = mem_brk
    /\ GET(mem, HDRP(mem_brk)) = PACK(0, 1)

IsFree(bp) == GET_ALLOC(mem, HDRP(bp)) = 0
BlockSize(bp) == GET_SIZE(mem, HDRP(bp))
FreeBlocks == {b \in BlockSet : IsFree(b)}

\* the nodes reached from b by the next pointers; a node met twice ends
\* the sequence (and appears twice in it)
RECURSIVE ListFrom(_, _, _)
ListFrom(m, b, seen) ==
    IF b = NULL THEN <<>>
    ELSE IF b \in seen THEN <<b>>
    ELSE <<b>> \o ListFrom(m, GET_NEXT_FREE(m, b), seen \cup {b})

FreeList == ListFrom(mem, free_list_root, {})
FreeListSet == Range(FreeList)

Initialised == heap_listp # 0

\* the invariants of the allocator, one by one
HeaderEqualsFooter ==
    \A b \in BlockSet : GET(mem, HDRP(b)) = GET(mem, FTRP(mem, b))
SizesValid ==
    \A b \in BlockSet :
        BlockSize(b) % 8 = 0 /\ BlockSize(b) > 0 /\ BlockSize(b) >= MIN_SIZE
NoAdjacentFreeIn(B) ==
    \A i \in 1 .. (Len(B) - 1) : ~(IsFree(B[i]) /\ IsFree(B[i + 1]))
NoAdjacentFree == NoAdjacentFreeIn(Blocks)
MembersInHeapAndFree ==
    \A b \in FreeListSet : mem_heap_lo <= b /\ b < mem_brk /\ IsFree(b)
ListAcyclic == Cardinality(FreeListSet) = Len(FreeList)
LinksConsistent ==
    /\ free_list_root # NULL => GET_PREV_FREE(mem, free_list_root) = NULL
    /\ \A b \in FreeListSet :
          GET_NEXT_FREE(mem, b) # NULL =>
              GET_PREV_FREE(mem, GET_NEXT_FREE(mem, b)) = b
CountsEqual == Len(FreeList) = Cardinality(FreeBlocks)

(* ---------------- claims ---------------- *)
RangesDisjoint(a, b) == a.ptr + a.size <= b.ptr \/ b.ptr + b.size <= a.ptr

\* C1: the payload ranges [p, p + requested size) of any two distinct live
\* allocations are disjoint (no pointer is handed out twice, and ranges of
\* different allocations do not meet).
C1_LiveAllocationsDisjoint ==
    /\ \A a \in Allocs : CopiesIn(a, live) = 1
    /\ \A a, b \in Allocs : a # b => RangesDisjoint(a, b)

\* three live allocations, two of them in consecutive blocks
C1_Witness ==
    /\ BagCardinality(live) >= 3
    /\ \E a, b \in Allocs : a.ptr + BlockSize(a.ptr) = b.ptr

\* C2: with an 8-byte-aligned heap start, every pointer returned by
\* mm_malloc or mm_realloc is 8-byte aligned and lies after the prologue
\* block and before the epilogue header.
C2_PointersAlignedAndInside ==
    HeapLo % 8 = 0 =>
        \A a \in Allocs :
            /\ a.ptr % 8 = 0
            /\ a.ptr > heap_listp + WSIZE - 1
            /\ a.ptr < mem_brk - WSIZE

\* a pointer handed out of the part of the heap added by a later extension,
\* and one obtained from mm_realloc
C2_Witness ==
    /\ \E a \in Allocs : a.ptr > HeapLo + 4 * WSIZE + CHUNKSIZE
    /\ \E a \in Allocs : a.seed # 0 /\ a.seed # a.ptr

\* C3: after mm_init and after every later call, mm_checkheap returns 1.
C3_CheckheapReturnsOne ==
    checked.called => (checked.returns /\ checked.value = 1)

AllInvariants ==
    /\ EndsAtEpilogue
    /\ HeaderEqualsFooter
    /\ SizesValid
    /\ NoAdjacentFree
    /\ MembersInHeapAndFree
    /\ ListAcyclic /\ LinksConsistent
    /\ CountsEqual

\* C4: mm_checkheap returns 1 exactly when all six invariants of the
\* allocator hold, and returns 0 otherwise.
C4_CheckheapDecidesInvariants ==
    checked.called =>
        /\ checked.returns
        /\ (checked.value = 1) <=> AllInvariants
        /\ (checked.value = 0) <=> ~AllInvariants

\* C5: between calls, the blocks reachable from free_list_root are exactly
\* the free blocks found walking the heap from the prologue to the
\* epilogue: every list member lies in the heap and is free, and the two
\* counts are equal.
C5_FreeListIsTheFreeBlocks ==
    Initialised =>
        /\ EndsAtEpilogue
        /\ MembersInHeapAndFree
        /\ FreeListSet = FreeBlocks
        /\ CountsEqual

\* three free-list members separated by allocated blocks
C5_Witness ==
    /\ Initialised
    /\ Len(FreeList) >= 3
    /\ live # EmptyBag

\* C6: between calls, no free block is immediately followed in the heap by
\* another free block.
C6_NoTwoAdjacentFreeBlocks ==
    Initialised => EndsAtEpilogue /\ NoAdjacentFree

\* an extended heap in which a free block of 72 bytes, which only the
\* merging of freed neighbours produces, is followed by an allocated block
C6_Witness ==
    /\ Initialised
    /\ \E i \in 1 .. (Len(Blocks) - 1) :
          /\ IsFree(Blocks[i]) /\ BlockSize(Blocks[i]) = 72
          /\ ~IsFree(Blocks[i + 1])

\* C7: between calls, every block other than the prologue and the epilogue
\* has a size that is a positive multiple of 8 and at least 24.
C7_BlockSizesValid ==
    Initialised => SizesValid /\ EndsAtEpilogue

\* a heap extended once holding a block taken whole (2048), a block split
\* off a larger one (24) and the free remainder
C7_Witness ==
    /\ mem_brk > HeapLo + 4 * WSIZE + CHUNKSIZE
    /\ \E a, b \in Allocs : BlockSize(a.ptr) = CHUNKSIZE /\ BlockSize(b.ptr) = MIN_SIZE
    /\ FreeBlocks # {}

\* C8: the free list is a finite acyclic doubly linked list: the head's prev
\* is null and every node b with a non-null next has b.next.prev = b.
C8_FreeListDoublyLinked ==
    Initialised => ListAcyclic /\ LinksConsistent

\* a list of two nodes left by the removal of an interior node: the first
\* block of the heap was taken out from between the two remaining nodes
C8_Witness ==
    /\ Len(FreeList) = 2
    /\ Len(Blocks) >= 5
    /\ ~IsFree(Blocks[1]) /\ ~IsFree(Blocks[2])
    /\ IsFree(Blocks[3]) /\ ~IsFree(Blocks[4])
    /\ FreeList[1] = Blocks[3]
    /\ BlockSize(Blocks[1]) = 24 /\ BlockSize(Blocks[3]) = 48

RoundUp(x, m) == CHOOSE r \in x .. (x + m - 1) : r % m = 0

\* C9 as stated: the adjusted size is max(24, round_up(size + 8, 16)).
C9_AdjustedSizeAsStated ==
    \A a \in Allocs : a.asize = MAX(24, RoundUp(a.size + 8, 16))

\* C9 as amended: the adjusted size is 24 for a request of at most 16 bytes
\* and round_up(size + 16, 16) for a larger one, and the block that holds
\* the allocation has that size or up to 16 bytes more.
C9_AdjustedSize ==
    \A a \in Allocs :
        /\ a.asize = IF a.size <= 16 THEN 24 ELSE RoundUp(a.size + 16, 16)
        /\ BlockSize(a.ptr) >= a.asize
        /\ BlockSize(a.ptr) < a.asize + MIN_SIZE

\* a request for which the stated and the computed size differ
C9_Witness ==
    \E a \in Allocs : a.size > 16 /\ a.asize # RoundUp(a.size + 8, 16)

\* C10: after a successful mm_realloc(p, n), n > 0, of a payload the client
\* had written, the first min(old payload size, n) bytes at the pointer
\* returned are the bytes that were stored at p.
C10_ReallocKeepsBytes ==
    \A a \in Allocs :
        (a.seed # 0 /\ a.seed # a.ptr) =>
            \A i \in 0 .. (a.wlen - 1) :
                GETB(mem, a.ptr + i) = Pattern(a.seed, i)

\* a written payload of one byte moved by mm_realloc to a payload of 17
C10_Witness ==
    \E a \in Allocs : a.seed # 0 /\ a.seed # a.ptr /\ a.wlen = 1 /\ a.size = 17

\* C11: a call of alloc that returns null because no free block fits and
\* the heap cannot be extended leaves memory (every header and footer), the
\* end of the heap and the free list as they were; a realloc(p, n) whose
\* allocation fails returns null and likewise leaves everything, block p and
\* its contents included, as it was, and the client still holds p.
C11_FailureLeavesHeap ==
    [][(heap_listp # 0 /\ last_fail' # "none") =>
           UNCHANGED <<mem, mem_brk, heap_listp, free_list_root, live>>]_vars

\* a realloc that has just failed on a heap that holds a written payload,
\* with no free block left
C11_Witness ==
    /\ last_fail = "realloc"
    /\ free_list_root = NULL
    /\ \E a \in Allocs : a.wlen > 0 /\ GET_ALLOC(mem, HDRP(a.ptr)) = 1

\* C12: on a freshly initialised heap, p = alloc(n); free(p); q = alloc(n)
\* yields q = p: the step that follows the free(p) of the only allocation
\* leaves the client with exactly one allocation, at address p.
C12_SameAddressAgain ==
    [][(nops = 3 /\ last_freed # NotFreed) =>
           /\ live' # EmptyBag
           /\ \A a \in Allocs' : a.ptr = last_freed.ptr]_vars

\* the second alloc(2048) has returned: the first one had extended the heap
\* by 2064 bytes
C12_Witness ==
    /\ nops = 4
    /\ mem_brk = HeapLo + 4 * WSIZE + CHUNKSIZE + 2064
    /\ \E a \in Allocs : a.size = 2048 /\ a.ptr = HeapLo + 4 * WSIZE

(* ---------------- claims about the proxy cache ---------------- *)
RECURSIVE SumSizes(_)
SumSizes(list) ==
    IF list = <<>> THEN 0 ELSE Head(list).response_size + SumSizes(Tail(list))

\* the labels between P(&write_mutex) and V(&write_mutex) of write_to_cache
WriterLabels == {"write_branch", "write_add", "write_evict", "write_unlock"}
Writers == {t \in Threads : pc[t] \in WriterLabels}

\* the labels of search_cache between the entry section and the exit
\* section: the traversal of the list
ReaderLabels == {"search_loop", "search_touch", "search_hit", "search_stamp",
                 "search_leave"}
Readers == {t \in Threads : pc[t] \in ReaderLabels}

\* C13: whenever no writer is inside write_to_cache, the response sizes of
\* the list entries and remaining_cache_size add up to MAX_CACHE_SIZE, so
\* remaining_cache_size is not negative and no more than MAX_CACHE_SIZE
\* bytes are cached (responses of at most MAX_OBJECT_SIZE bytes).
C13_SizesAddUp ==
    Writers = {} =>
        /\ SumSizes(cache) + remaining_cache_size = MAX_CACHE_SIZE
        /\ remaining_cache_size >= 0
        /\ SumSizes(cache) <= MAX_CACHE_SIZE

\* an insert into the full cache has deleted a small entry and overwritten
\* a large one, and has left write_to_cache
C13_Witness ==
    /\ Writers = {}
    /\ Len(cache) = Fill + 1
    /\ cache[2].alloc = 2
    /\ \A i \in 2 .. Len(cache) : cache[i].alloc # 1
    /\ cache[2].response_size = MAX_OBJECT_SIZE
    /\ remaining_cache_size = MAX_CACHE_SIZE - Fill * MAX_OBJECT_SIZE
    /\ \A i \in 2 .. Len(cache) : cache[i].response_size = MAX_OBJECT_SIZE
    /\ \E i \in 3 .. Len(cache) : cache[i].alloc = -1

\* C14: while a writer is between P(&write_mutex) and V(&write_mutex) of
\* write_to_cache, no reader is inside the traversal of search_cache, and
\* at most one writer is inside write_to_cache.
C14_WriterExcludesReaders ==
    /\ Cardinality(Writers) <= 1
    /\ Writers # {} => Readers = {}

\* a writer is inside while the first reader waits for write_mutex
C14_Witness ==
    /\ Writers # {}
    /\ write_mutex = 0
    /\ \E t \in Threads : pc[t] = "search_first" /\ readers_count = 1

\* C15: no two entries of the list have the same URL, whatever the handlers
\* do, two of them missing on the same URL at the same time included.
C15_NoTwoEntriesOfOneUrl ==
    \A i, j \in 2 .. Len(cache) : cache[i].url = cache[j].url => i = j

\* C16: while a handler is sending the response of the entry search_cache
\* returned to it, no write_to_cache has freed that entry or overwritten its
\* url, response and response_size.
C16_HitStaysIntact ==
    \A t \in Threads : pc[t] = "send" => Intact(loc[t].cache_hit)

\* a thread that is about to store into last_access: lines 455 and 467 of
\* search_cache, lines 504 and 531 of write_to_cache
Stamping(t) ==
    pc[t] \in {"search_stamp", "search_touch", "write_branch", "write_evict"}
HoldsLRU(t) == pc[t] = "search_stamp"
HoldsWrite(t) == pc[t] \in WriterLabels

\* C17: a thread writes last_access only as a reader that holds LRU_mutex or
\* as a writer that holds write_mutex, so no two threads are about to write
\* the last_access of the same entry.
C17_StampsUnderLock ==
    /\ \A t \in Threads : Stamping(t) => HoldsLRU(t) \/ HoldsWrite(t)
    /\ \A t, u \in Threads :
           (t # u /\ Stamping(t) /\ Stamping(u)
                /\ t \in Readers /\ u \in Readers) =>
               loc[t].c # loc[u].c

\* C18: on a list with entries, find_LRU returns an entry whose last_access
\* is the smallest of the list.
C18_FindLRUIsOldest ==
    Len(cache) > 1 =>
        \A i \in 2 .. Len(cache) :
            cache[find_LRU(cache, now)].last_access <= cache[i].last_access

\* the number of objects of MAX_OBJECT_SIZE bytes that fit the cache
Capacity == MAX_CACHE_SIZE \div MAX_OBJECT_SIZE

\* the single client has asked for URLs 1 .. n, each once and in this
\* order, and the handler has cached the last of them
InsertedInSequence(n) == nreq = n /\ pc[1] = "idle" /\ n \in CachedUrls

C20_LookupReturnsInserted ==
    \A t \in Threads :
        (pc[t] = "search_leave" /\ loc[t].c # 0) =>
            \A i \in 2 .. Len(cache) :
                cache[i].url = loc[t].url =>
                    /\ cache[i].response = cache[loc[t].c].response
                    /\ cache[i].response_size = cache[loc[t].c].response_size

\* C21: when handle_request has read the whole answer of the server, it
\* goes on to write_to_cache if and only if the answer was at most
\* MAX_OBJECT_SIZE bytes long, and what it hands to write_to_cache is as
\* long as what it passed on to the client.
C21_CachesWholeResponse ==
    [][\A t \in Threads :
           (pc[t] = "read" /\ pc'[t] # "read") =>
               /\ pc'[t] = "write" <=> loc[t].streamed <= MAX_OBJECT_SIZE
               /\ pc'[t] = "write" =>
                      loc'[t].response.size = loc[t].streamed]_vars

\* the labels of search_cache
SearchLabels == {"search", "search_first"} \cup ReaderLabels

\* C22: a search_cache changes the last_access of the entry it matches and
\* of no other: on a hit the entries that do not match keep theirs, on a
\* miss every entry does; the entries of the list and remaining_cache_size
\* stay as they are (one handler, so that every change is its own).
C22_LookupStampsMatchOnly ==
    [][pc[1] \in SearchLabels =>
           /\ remaining_cache_size' = remaining_cache_size
           /\ Len(cache') = Len(cache)
           /\ \A i \in 1 .. Len(cache) :
                  /\ [cache'[i] EXCEPT !.last_access = 0]
                         = [cache[i] EXCEPT !.last_access = 0]
                  /\ cache'[i].last_access # cache[i].last_access =>
                         cache[i].url = loc[1].url]_vars

\* the first n nodes that the next pointers reach from b, fewer when the
\* list ends before; taken half by half, as a list of FURTHESTDOWN nodes
\* and more is walked here
RECURSIVE NodesFrom(_, _, _)
NodesFrom(m, b, n) ==
    IF n = 0 \/ b = NULL THEN <<>>
    ELSE IF n = 1 THEN <<b>>
    ELSE LET left == NodesFrom(m, b, n \div 2)
         IN  IF Len(left) < n \div 2 THEN left
             ELSE left \o NodesFrom(m, GET_NEXT_FREE(m, Last(left)),
                                    n - (n \div 2))

\* the free list, head first
FreeNodes == NodesFrom(mem, free_list_root, (mem_brk - HeapLo) \div MIN_SIZE)

\* what C23 says find_fit(asize) returns on the free list L, whose blocks
\* have the sizes S: the blocks examined are L[1] .. L[Examined]
QualifyingIn(S, asize, k) ==
    {i \in 1 .. k : S[i] >= asize}
StopsAt(S, asize, k) ==
    \/ k = Len(S)
    \/ Cardinality(QualifyingIn(S, asize, k)) = FITS
    \/ \E f \in QualifyingIn(S, asize, k) :
           /\ \A i \in 1 .. f - 1 : S[i] < asize
           /\ k - f = FURTHESTDOWN
Examined(S, asize) ==
    LET stops == {k \in 0 .. Len(S) : StopsAt(S, asize, k)}
    IN  CHOOSE k \in stops : \A j \in stops : k <= j
SmallestFirst(S, C) ==
    CHOOSE i \in C : \A j \in C : S[i] < S[j] \/ (S[i] = S[j] /\ i <= j)
FitAsStated(L, asize) ==
    LET S == [i \in 1 .. Len(L) |-> BlockSize(L[i])]
        C == QualifyingIn(S, asize, Examined(S, asize))
    IN  IF C = {} THEN NULL ELSE L[SmallestFirst(S, C)]

\* C23: find_fit scans the free list from its head, stops at the end of the
\* list, or when it has inspected FURTHESTDOWN blocks past the first one
\* that is large enough, or when it has seen FITS blocks that are large
\* enough; it returns the smallest block of at least asize bytes among those
\* it examined, the first of them when several are as small, and NULL when
\* there is none; it changes nothing of the heap and the free list.
C23_FindFit ==
    [][found' # found =>
           /\ found'.bp = FitAsStated(FreeNodes, found'.asize)
           /\ UNCHANGED <<mem, mem_brk, heap_listp, free_list_root>>]_vars

\* find_fit has stopped FURTHESTDOWN blocks past the first block, which it
\* returns although the block after those is large enough and smaller
C23_Witness ==
    /\ found.bp = free_list_root
    /\ Len(FreeNodes) = FURTHESTDOWN + 2
    /\ BlockSize(Last(FreeNodes)) >= found.asize
    /\ BlockSize(Last(FreeNodes)) < BlockSize(found.bp)

\* the step is mm_free(p) of an allocation that the client holds
FreeOf(p) ==
    /\ last_freed'.ptr = p
    /\ \E a \in Allocs : a.ptr = p /\ live' = live (-) One(a)

\* the blocks that mm_free(B[i]) merges in the memory m: B[i] and each
\* neighbour that is free
MergedAt(m, B, i) ==
    {j \in {i - 1, i, i + 1} :
        /\ j \in 1 .. Len(B)
        /\ j # i => GET_ALLOC(m, HDRP(B[j])) = 0}
RECURSIVE SumOfSizes(_, _, _)
SumOfSizes(m, B, J) ==
    IF J = {} THEN 0
    ELSE LET j == CHOOSE k \in J : TRUE
         IN  GET_SIZE(m, HDRP(B[j])) + SumOfSizes(m, B, J \ {j})
FirstOf(B, J) == B[CHOOSE j \in J : \A k \in J : j <= k]

\* the blocks B with those of the indices J replaced by the first of them
WithMerged(B, J) ==
    LET lo == CHOOSE j \in J : \A k \in J : j <= k
        hi == CHOOSE j \in J : \A k \in J : j >= k
    IN  SubSeq(B, 1, lo) \o SubSeq(B, hi + 1, Len(B))

\* what C24 says of mm_free(B[i]) on the memory m with the blocks B and the
\* free list L, which it leaves as the memory m2 with the blocks B2 and the
\* free list L2
FreeMerges(m, B, L, i, m2, B2, L2) ==
    /\ B2 = WithMerged(B, MergedAt(m, B, i))
    /\ GET(m2, HDRP(FirstOf(B, MergedAt(m, B, i))))
           = PACK(SumOfSizes(m, B, MergedAt(m, B, i)), FREE)
    /\ GET(m2, FTRP(m2, FirstOf(B, MergedAt(m, B, i))))
           = PACK(SumOfSizes(m, B, MergedAt(m, B, i)), FREE)
    /\ Range(L2) = (Range(L) \ {B[j] : j \in MergedAt(m, B, i)})
                      \cup {FirstOf(B, MergedAt(m, B, i))}
    /\ Len(L2) = Cardinality(Range(L2))
    /\ L2[1] = FirstOf(B, MergedAt(m, B, i))

\* C24: after free(p) of a live block, whether the block before it and the
\* block after it are allocated or free, the freed block and each adjacent
\* free neighbour form one free block whose size is the sum of their sizes,
\* the merged neighbours are no longer members of the free list, and the
\* resulting block is the head of the free list.
C24_FreeCoalesces ==
    [][Initialised =>
           \A i \in 1 .. Len(Blocks) :
               FreeOf(Blocks[i]) =>
                   FreeMerges(mem, Blocks, FreeList, i, mem',
                              Front(Walk(mem', NEXT_BLKP(mem', heap_listp'),
                                         mem_brk')),
                              ListFrom(mem', free_list_root', {}))]_vars

\* mm_free has merged the block at p with a free block before it and a free
\* block after it: the head of the list starts before p and ends beyond the
\* block that p had
C24_Witness ==
    /\ last_freed # NotFreed
    /\ free_list_root # NULL
    /\ free_list_root < last_freed.ptr
    /\ free_list_root + BlockSize(free_list_root)
           > last_freed.ptr + BlockSize(last_freed.ptr)
    /\ \A a \in Allocs : a.ptr > free_list_root + BlockSize(free_list_root)

\* C25: mm_realloc(ptr, size) with ptr not NULL and size > 0, when it gets
\* the new block, copies exactly min(old payload size, size) bytes, the old
\* payload size being the size of the old block less the DSIZE bytes of its
\* header and footer; so it reads no byte past the old payload.
C25_CopiesMinOfPayload ==
    [][\A a \in Allocs, size \in ReallocSizes \ {0} :
           (Realloc_call(a, size) /\ mm_realloc(Heap, a.ptr, size).ret # NULL)
               => mm_realloc(Heap, a.ptr, size).copied
                      = Min(BlockSize(a.ptr) - DSIZE, size)]_vars

\* the step is a call mm_calloc(nmemb, size) in which malloc returns NULL
\* because the heap cannot be extended
CallocFails(nmemb, size) ==
    /\ Initialised
    /\ nmemb * size > 0
    /\ mm_malloc(Heap, nmemb * size).ret = NULL
    /\ nops' = nops + 1
    /\ Calloc_call(nmemb, size)

\* C26: when alloc(n * size) returns NULL because the heap cannot be
\* extended, mm_calloc returns NULL, writes to no memory and leaves the heap
\* as it was.
C26_CallocFailsCleanly ==
    [][\A nmemb \in CallocMembers, size \in CallocSizes :
           CallocFails(nmemb, size) =>
               /\ last_fail' = "calloc"
               /\ UNCHANGED <<mem, mem_brk, heap_listp, free_list_root,
                              live>>]_vars

\* thread t is inside a P whose semaphore is 0
Blocked(t) ==
    \/ pc[t] \in {"search", "search_leave"} /\ ~CanP(count_mutex)
    \/ pc[t] = "search_first" /\ readers_count = 1 /\ ~CanP(write_mutex)
    \/ pc[t] = "search_hit" /\ ~CanP(LRU_mutex)
    \/ pc[t] = "write" /\ ~CanP(write_mutex)
Unfinished == {t \in Threads : pc[t] # "idle"}
SemaphoresFree ==
    /\ count_mutex = 1 /\ LRU_mutex = 1 /\ write_mutex = 1
    /\ readers_count = 0

\* C27: with handler threads that each run lookups and inserts under a fair
\* scheduler, in no reachable state is every unfinished thread blocked in
\* P(count_mutex), P(write_mutex) or P(LRU_mutex); every thread that has
\* started a call completes it; and when no call is under way the three
\* semaphores are back at 1 and readers_count is back at 0.
C27_NoDeadlockAndCompletion ==
    /\ [](Unfinished # {} => \E t \in Unfinished : ~Blocked(t))
    /\ [](Unfinished = {} => SemaphoresFree)
    /\ \A t \in Threads : (pc[t] # "idle") ~> (pc[t] = "idle")

\* a reader holds count_mutex and waits in P(write_mutex) for a writer that
\* is evicting, after an earlier request has been served
C27_Witness ==
    /\ nreq = MaxRequests
    /\ \E t \in Threads, u \in Threads :
           /\ pc[t] = "search_first" /\ Blocked(t)
           /\ pc[u] = "write_evict"
    /\ count_mutex = 0 /\ write_mutex = 0

====
